---- MODULE Spec2Model ----
(***************************************************************************)
(* google-recaptcha-multisite: the validator resolver                      *)
(* (RecaptchaValidatorResolver.resolve) and the request guard              *)
(* (GoogleRecaptchaGuard.canActivate).                                     *)
(*                                                                         *)
(* JavaScript values are modelled as follows: `undefined` is the string    *)
(* "undefined", the empty string is "", and a condition `if (x)` on a      *)
(* string is Truthy(x).  Scores are tenths (0.5 is 5); an absent score is  *)
(* NoScore.                                                                *)
(***************************************************************************)
EXTENDS Integers, Sequences, FiniteSets, TLC

\* ---------------------------------------------------------------- bounds
MaxSites == 2

\* ---------------------------------------------------------------- values
Undefined == "undefined"
NoScore == -1

Truthy(s) == s # Undefined /\ s # ""
TruthyScore(n) == n # NoScore /\ n # 0

ConfigSiteKeys == {"A", "B"}
SiteSecrets == {"sA", "sB"}
SiteNames == {"eufy", Undefined}
MapKeys == {"A", "B"}
MapSecrets == {"", "m1", "m2"}
SiteKeyArgs == {Undefined, "", "A", "B", "C"}
Requests == {1, 2}
Cells == {1, 2}
Headers == {Undefined, "", "A", "B", "C"}
OptSites == {Undefined, "eufy", "anker"}
OptScores == {NoScore, 0, 5, 8}
ConfigScores == {NoScore, 5}
SkipIfValues == {Undefined, "false", "true", "function"}
Results ==
  { [success |-> TRUE, errors |-> <<>>],
    [success |-> FALSE, errors |-> <<>>],
    [success |-> FALSE, errors |-> <<"low-score">>],
    [success |-> FALSE, errors |-> <<"invalid-input-response", "timeout-or-duplicate">>] }

SiteEntries == [siteKey : ConfigSiteKeys, secretKey : SiteSecrets, name : SiteNames]
SitesLists == UNION {[1..n -> SiteEntries] : n \in 0..MaxSites}
SecretOf(k) == IF k = "A" THEN "sA" ELSE "sB"
CanonicalEntries == {e \in SiteEntries : e.secretKey = SecretOf(e.siteKey)}
CanonicalLists == UNION {[1..n -> CanonicalEntries] : n \in 0..MaxSites}

EmptyMap == [k \in {} |-> Undefined]
MapGet(m, k) == IF k \in DOMAIN m THEN m[k] ELSE Undefined
MapSet(m, k, v) == [x \in (DOMAIN m) \cup {k} |-> IF x = k THEN v ELSE m[x]]

\* ---------------------------------------------------------------- state
VARIABLES config, GOOGLE_RECAPTCHA_SECRET_MAP, lastResolve, heap, req

vars == <<config, GOOGLE_RECAPTCHA_SECRET_MAP, lastResolve, heap, req>>

\* ------------------------------------------------- Array.prototype.find
RECURSIVE FindFrom(_, _, _, _)
FindFrom(sites, field, v, i) ==
  IF i > Len(sites) THEN 0
  ELSE IF (IF field = "siteKey" THEN sites[i].siteKey ELSE sites[i].name) = v THEN i
  ELSE FindFrom(sites, field, v, i + 1)

\* index of the first entry whose field equals v, 0 when there is none
Find(sites, field, v) == FindFrom(sites, field, v, 1)

\* ------------------------------------------- RecaptchaValidatorResolver
Enterprise ==
  [kind |-> "enterprise", currentSecretKey |-> Undefined, errors |-> <<>>,
   named |-> Undefined, lookups |-> {}]
Standard(secret, lookups) ==
  [kind |-> "standard", currentSecretKey |-> secret, errors |-> <<>>,
   named |-> Undefined, lookups |-> lookups]
Throw(siteKey, lookups) ==
  [kind |-> "throw", currentSecretKey |-> Undefined,
   errors |-> <<"missing-input-secret">>, named |-> siteKey, lookups |-> lookups]

resolveBody(siteKey, cfg, secretMap) ==
  IF cfg.enterprise THEN Enterprise
  ELSE IF Truthy(siteKey) THEN
    LET i == IF cfg.sitesDefined THEN Find(cfg.sites, "siteKey", siteKey) ELSE 0
        seen == IF cfg.sitesDefined THEN {"sites"} ELSE {}
    IN IF i # 0 THEN Standard(cfg.sites[i].secretKey, seen)
       ELSE IF Truthy(MapGet(secretMap, siteKey))
         THEN Standard(MapGet(secretMap, siteKey), seen \cup {"SECRET_MAP"})
         ELSE Throw(siteKey, seen \cup {"SECRET_MAP"})
  ELSE IF cfg.sitesDefined /\ Len(cfg.sites) > 0
    THEN Standard(cfg.sites[1].secretKey, {"sites"})
    ELSE Standard(Undefined, {})

\* resolve reading the mapping as it was at startup instead of afresh
resolveStartupMap(siteKey, cfg, secretMap) == resolveBody(siteKey, cfg, EmptyMap)

\* resolve consulting the global mapping before the per-site list
resolveMapFirst(siteKey, cfg, secretMap) ==
  IF ~cfg.enterprise /\ Truthy(siteKey) /\ Truthy(MapGet(secretMap, siteKey))
    THEN Standard(MapGet(secretMap, siteKey), {"SECRET_MAP"})
    ELSE resolveBody(siteKey, cfg, secretMap)

\* resolve substituting the no-identifier secret where it should throw
resolveFallback(siteKey, cfg, secretMap) ==
  IF resolveBody(siteKey, cfg, secretMap).kind = "throw"
    THEN resolveBody(Undefined, cfg, secretMap)
    ELSE resolveBody(siteKey, cfg, secretMap)

\* resolve testing the enterprise flag only when no identifier is supplied
resolveEnterpriseLate(siteKey, cfg, secretMap) ==
  IF Truthy(siteKey)
    THEN resolveBody(siteKey, [cfg EXCEPT !.enterprise = FALSE], secretMap)
    ELSE resolveBody(siteKey, cfg, secretMap)

\* resolve taking the last configured site when no identifier is supplied
resolveLastSite(siteKey, cfg, secretMap) ==
  IF ~cfg.enterprise /\ ~Truthy(siteKey) /\ cfg.sitesDefined /\ Len(cfg.sites) > 0
    THEN Standard(cfg.sites[Len(cfg.sites)].secretKey, {"sites"})
    ELSE resolveBody(siteKey, cfg, secretMap)

resolve(siteKey, cfg, secretMap) == resolveBody(siteKey, cfg, secretMap)

\* ------------------------------------------------- GoogleRecaptchaGuard
\* skipIf ignoring the result of a function
skipBooleanOnly(skipIfValue, awaited) == skipIfValue = "true"

\* typeof skipIfValue === 'function' ? await skipIfValue(request) : !!skipIfValue
skip(skipIfValue, awaited) ==
  IF skipIfValue = "function" THEN awaited ELSE skipIfValue = "true"

\* the site identifier taken from the header whenever the header carries one
siteKeyHeaderFirst(header, optSite, cfg) ==
  LET i == IF Truthy(optSite) /\ cfg.sitesDefined THEN Find(cfg.sites, "name", optSite) ELSE 0
  IN IF Truthy(header) \/ i = 0 THEN header ELSE cfg.sites[i].siteKey

\* let siteKey = request.headers['x-recaptcha-sitekey'], overridden by the
\* siteKey of the entry found by the decorator's site name
siteKeyOf(header, optSite, cfg) ==
  LET i == IF Truthy(optSite) /\ cfg.sitesDefined THEN Find(cfg.sites, "name", optSite) ELSE 0
  IN IF i # 0 THEN cfg.sites[i].siteKey ELSE header

\* options?.score || this.configRef.valueOf.score
scoreOf(optScore, cfgScore) ==
  IF TruthyScore(optScore) THEN optScore ELSE cfgScore

\* a request passing whenever the result carries no error
passOnNoErrors(q, result) ==
  IF result.errors = <<>>
    THEN [q EXCEPT !.pc = "done", !.hasResult = TRUE,
                   !.recaptchaValidationResult = result, !.outcome = "true"]
    ELSE [q EXCEPT !.pc = "done", !.hasResult = TRUE,
                   !.recaptchaValidationResult = result,
                   !.outcome = "throw", !.thrown = result.errors]

\* lines 74-92: the result is attached to the request and decides the outcome
settle(q, result) ==
  IF result.success
    THEN [q EXCEPT !.pc = "done", !.hasResult = TRUE,
                   !.recaptchaValidationResult = result, !.outcome = "true"]
    ELSE [q EXCEPT !.pc = "done", !.hasResult = TRUE,
                   !.recaptchaValidationResult = result,
                   !.outcome = "throw", !.thrown = result.errors]

\* one validator instance shared by all calls
sharedValidator(h) == 1

\* new GoogleRecaptchaValidator(...): a cell no other reference points to
newValidator(h) ==
  CHOOSE i \in DOMAIN h : ~h[i].live /\ \A j \in DOMAIN h : j < i => h[j].live

\* lines 40-60: return on skip, else resolve the site identifier and call the
\* token extractor
proceed(q, skipped, cfg) ==
  IF skipped
    THEN [q EXCEPT !.pc = "done", !.outcome = "true"]
    ELSE [q EXCEPT !.pc = "awaitResponse",
                   !.siteKey = siteKeyOf(q.header, q.optSite, cfg),
                   !.extractorCalls = @ + 1]

\* ---------------------------------------------------------------- Init
NoCall == [called |-> FALSE, siteKey |-> Undefined, ret |-> Standard(Undefined, {}),
           inMap |-> FALSE, mapValue |-> Undefined]
NoMapped == [inMap |-> FALSE, mapValue |-> Undefined]
FreeCell == [live |-> FALSE, kind |-> "standard", currentSecretKey |-> Undefined]
NoResult == [success |-> FALSE, errors |-> <<>>]
IdleRequest ==
  [pc |-> "idle", header |-> Undefined, optSite |-> Undefined, siteKey |-> Undefined,
   skipResult |-> FALSE, optScore |-> NoScore, score |-> NoScore,
   extractorCalls |-> 0, resolveCalls |-> 0, validateCalls |-> 0,
   validator |-> 0, seen |-> NoMapped,
   hasResult |-> FALSE, recaptchaValidationResult |-> NoResult,
   outcome |-> "none", thrown |-> <<>>, named |-> Undefined]

InitResolver ==
  /\ config \in [enterprise : BOOLEAN, sitesDefined : {TRUE}, sites : SitesLists,
                 skipIf : {Undefined}, score : {NoScore}]
           \cup [enterprise : BOOLEAN, sitesDefined : {FALSE}, sites : {<<>>},
                 skipIf : {Undefined}, score : {NoScore}]
  /\ GOOGLE_RECAPTCHA_SECRET_MAP = EmptyMap
  /\ lastResolve = NoCall
  /\ heap = [i \in Cells |-> FreeCell]
  /\ req = [r \in Requests |-> IdleRequest]

\* ------------------------------------------------------------- actions
\* an external write GOOGLE_RECAPTCHA_SECRET_MAP[k] = v (population, rotation)
WriteSecretMap ==
  \E k \in MapKeys, v \in MapSecrets :
    /\ MapGet(GOOGLE_RECAPTCHA_SECRET_MAP, k) # v
    /\ GOOGLE_RECAPTCHA_SECRET_MAP' = MapSet(GOOGLE_RECAPTCHA_SECRET_MAP, k, v)
    /\ UNCHANGED <<config, lastResolve, heap, req>>

\* a call resolver.resolve(siteKey); inMap and mapValue record the mapping
\* as it is at the moment of the call
ResolveCall ==
  \E k \in SiteKeyArgs :
    /\ lastResolve' = [called |-> TRUE, siteKey |-> k,
                       ret |-> resolve(k, config, GOOGLE_RECAPTCHA_SECRET_MAP),
                       inMap |-> k \in DOMAIN GOOGLE_RECAPTCHA_SECRET_MAP,
                       mapValue |-> MapGet(GOOGLE_RECAPTCHA_SECRET_MAP, k)]
    /\ UNCHANGED <<config, GOOGLE_RECAPTCHA_SECRET_MAP, heap, req>>

NextResolver == WriteSecretMap \/ ResolveCall

\* canActivate is entered (lines 31-38); a skipIf function is called and awaited
Enter(r, headers, optSites, optScores) ==
  \E h \in headers, s \in optSites, c \in optScores :
    /\ req[r].pc = "idle"
    /\ LET q == [req[r] EXCEPT !.header = h, !.optSite = s, !.optScore = c]
       IN req' = [req EXCEPT ![r] =
                    IF config.skipIf = "function"
                      THEN [q EXCEPT !.pc = "awaitSkip"]
                      ELSE proceed(q, skip(config.skipIf, FALSE), config)]
    /\ UNCHANGED <<config, GOOGLE_RECAPTCHA_SECRET_MAP, lastResolve, heap>>

\* the awaited skipIf function returns
ResumeSkip(r) ==
  \E awaited \in BOOLEAN :
    /\ req[r].pc = "awaitSkip"
    /\ req' = [req EXCEPT ![r] =
                 proceed([req[r] EXCEPT !.skipResult = awaited],
                         skip(config.skipIf, awaited), config)]
    /\ UNCHANGED <<config, GOOGLE_RECAPTCHA_SECRET_MAP, lastResolve, heap>>

\* the awaited token extractor returns (line 60); line 61 calls and awaits
\* the decorator's address extractor, or awaits the module's extractor itself
ResumeResponse(r) ==
  \E optRemoteIp \in BOOLEAN :
    /\ req[r].pc = "awaitResponse"
    /\ req' = [req EXCEPT ![r] =
                 IF optRemoteIp
                   THEN [@ EXCEPT !.pc = "awaitOptRemoteIp", !.extractorCalls = @ + 1]
                   ELSE [@ EXCEPT !.pc = "awaitCfgRemoteIp"]]
    /\ UNCHANGED <<config, GOOGLE_RECAPTCHA_SECRET_MAP, lastResolve, heap>>

\* line 61 resumes; the module's address extractor is called when configured
ResumeRemoteIp(r) ==
  \E cfgRemoteIp \in BOOLEAN :
    /\ req[r].pc \in {"awaitOptRemoteIp", "awaitCfgRemoteIp"}
    /\ req[r].pc = "awaitOptRemoteIp" => ~cfgRemoteIp
    /\ req' = [req EXCEPT ![r] =
                 [@ EXCEPT !.pc = "awaitAll",
                           !.extractorCalls = IF cfgRemoteIp THEN @ + 1 ELSE @]]
    /\ UNCHANGED <<config, GOOGLE_RECAPTCHA_SECRET_MAP, lastResolve, heap>>

\* Promise.all returns (line 62); lines 64-74 run to the await of validate
ResumeAll(r) ==
  /\ req[r].pc = "awaitAll"
  /\ LET v == resolve(req[r].siteKey, config, GOOGLE_RECAPTCHA_SECRET_MAP)
         id == newValidator(heap)
         q == [req[r] EXCEPT
                 !.score = scoreOf(req[r].optScore, config.score),
                 !.resolveCalls = @ + 1,
                 !.seen = [inMap |-> req[r].siteKey \in DOMAIN GOOGLE_RECAPTCHA_SECRET_MAP,
                           mapValue |-> MapGet(GOOGLE_RECAPTCHA_SECRET_MAP, req[r].siteKey)]]
     IN IF v.kind = "throw"
          THEN /\ req' = [req EXCEPT ![r] =
                           [q EXCEPT !.pc = "done", !.outcome = "throw",
                                     !.thrown = v.errors, !.named = v.named]]
               /\ UNCHANGED heap
          ELSE /\ heap' = [heap EXCEPT ![id] =
                            [live |-> TRUE, kind |-> v.kind,
                             currentSecretKey |-> v.currentSecretKey]]
               /\ req' = [req EXCEPT ![r] =
                           [q EXCEPT !.pc = "awaitValidate", !.validator = id,
                                     !.validateCalls = @ + 1]]
  /\ UNCHANGED <<config, GOOGLE_RECAPTCHA_SECRET_MAP, lastResolve>>

\* the verification call returns its result (lines 74-92)
ResumeValidate(r) ==
  \E result \in Results :
    /\ req[r].pc = "awaitValidate"
    /\ req' = [req EXCEPT ![r] = settle(req[r], result)]
    /\ UNCHANGED <<config, GOOGLE_RECAPTCHA_SECRET_MAP, lastResolve, heap>>

\* canActivate has returned or thrown; its validator is unreachable
Finish(r) ==
  /\ req[r].pc = "done"
  /\ req' = [req EXCEPT ![r] = IdleRequest]
  /\ heap' = [i \in Cells |->
               IF i = req[r].validator /\ \A o \in Requests \ {r} : req[o].validator # i
                 THEN FreeCell ELSE heap[i]]
  /\ UNCHANGED <<config, GOOGLE_RECAPTCHA_SECRET_MAP, lastResolve>>

InitGuard ==
  /\ config \in [enterprise : BOOLEAN, sitesDefined : {TRUE}, sites : CanonicalLists,
                 skipIf : SkipIfValues, score : ConfigScores]
           \cup [enterprise : BOOLEAN, sitesDefined : {FALSE}, sites : {<<>>},
                 skipIf : SkipIfValues, score : ConfigScores]
  /\ GOOGLE_RECAPTCHA_SECRET_MAP \in {EmptyMap, MapSet(EmptyMap, "B", "m1")}
  /\ lastResolve = NoCall
  /\ heap = [i \in Cells |-> FreeCell]
  /\ req = [r \in Requests |-> IdleRequest]

NextGuard ==
  \/ Enter(1, Headers, OptSites, OptScores)
  \/ ResumeSkip(1)
  \/ ResumeResponse(1)
  \/ ResumeRemoteIp(1)
  \/ ResumeAll(1)
  \/ ResumeValidate(1)
  \/ Finish(1)

SpecGuard == InitGuard /\ [][NextGuard]_vars

\* concurrent requests: canActivate executions interleave at their awaits,
\* and with writes to the global mapping
ConcSites == {<<>>, <<[siteKey |-> "A", secretKey |-> "sA", name |-> "eufy"]>>}

InitConc ==
  /\ config \in [enterprise : {FALSE}, sitesDefined : {TRUE}, sites : ConcSites,
                 skipIf : {Undefined}, score : {NoScore}]
  /\ GOOGLE_RECAPTCHA_SECRET_MAP = EmptyMap
  /\ lastResolve = NoCall
  /\ heap = [i \in Cells |-> FreeCell]
  /\ req = [r \in Requests |-> IdleRequest]

NextConc ==
  \/ WriteSecretMap
  \/ \E r \in Requests :
       \/ Enter(r, {Undefined, "A", "B"}, {Undefined}, {NoScore})
       \/ ResumeResponse(r)
       \/ ResumeRemoteIp(r)
       \/ ResumeAll(r)
       \/ ResumeValidate(r)
       \/ Finish(r)

SpecConc == InitConc /\ [][NextConc]_vars

SpecResolver == InitResolver /\ [][NextResolver]_vars

\* ------------------------------------------------ resolver properties
\* the call lastResolve was made with an identifier that is the siteKey of
\* some entry of the per-site list
MatchesEntry ==
  /\ config.sitesDefined
  /\ \E i \in 1..Len(config.sites) : config.sites[i].siteKey = lastResolve.siteKey
FirstMatch ==
  CHOOSE i \in 1..Len(config.sites) :
    /\ config.sites[i].siteKey = lastResolve.siteKey
    /\ \A j \in 1..(i - 1) : config.sites[j].siteKey # lastResolve.siteKey
StandardCall == lastResolve.called /\ ~config.enterprise

\* C1: with enterprise mode off, a resolve call whose identifier matches an
\* entry of the per-site list returns a standard validator bound to the
\* secretKey of the (first) matching entry and does not read the global
\* mapping, whatever the mapping holds for that identifier.
C1_SiteListSecretWins ==
  (StandardCall /\ MatchesEntry) =>
    /\ lastResolve.ret.kind = "standard"
    /\ lastResolve.ret.currentSecretKey = config.sites[FirstMatch].secretKey
    /\ "SECRET_MAP" \notin lastResolve.ret.lookups

\* a call for a listed identifier for which the mapping holds another
\* secret, the list holding two entries for it with different secrets
C1_Witness ==
  /\ StandardCall /\ MatchesEntry
  /\ lastResolve.inMap /\ Truthy(lastResolve.mapValue)
  /\ \E i \in 1..Len(config.sites) :
       /\ config.sites[i].siteKey = lastResolve.siteKey
       /\ config.sites[i].secretKey # lastResolve.ret.currentSecretKey

\* C2 as stated: with enterprise mode off, a resolve call whose identifier
\* is absent from the per-site list but is a key of the global mapping at
\* the moment of the call binds the mapping's current value for that key.
C2_AnyMappedKeyBound ==
  (StandardCall /\ lastResolve.siteKey # Undefined /\ ~MatchesEntry
     /\ lastResolve.inMap) =>
    /\ lastResolve.ret.kind = "standard"
    /\ lastResolve.ret.currentSecretKey = lastResolve.mapValue

\* C2 amended: the same, for a key whose current value in the mapping is a
\* non-empty secret; the value bound is the one the mapping holds at the
\* moment of the call, after any sequence of writes.
C2_MappedSecretBoundFresh ==
  (StandardCall /\ lastResolve.siteKey # Undefined /\ ~MatchesEntry
     /\ lastResolve.inMap /\ Truthy(lastResolve.mapValue)) =>
    /\ lastResolve.ret.kind = "standard"
    /\ lastResolve.ret.currentSecretKey = lastResolve.mapValue

\* a call that binds a rotated secret: the mapping holds a value for the
\* key, written after startup, and holds another key too
C2_Witness ==
  /\ StandardCall /\ ~MatchesEntry
  /\ lastResolve.inMap /\ lastResolve.mapValue = "m2"
  /\ lastResolve.ret.currentSecretKey = "m2"
  /\ Cardinality(DOMAIN GOOGLE_RECAPTCHA_SECRET_MAP) = 2

\* C3 as stated: with enterprise mode off, a resolve call with a supplied
\* identifier found neither in the per-site list nor in the global mapping
\* throws [MissingInputSecret] with a message naming the identifier.
C3_AnySuppliedUnknownThrows ==
  (StandardCall /\ lastResolve.siteKey # Undefined /\ ~MatchesEntry
     /\ ~lastResolve.inMap) =>
    /\ lastResolve.ret.kind = "throw"
    /\ lastResolve.ret.errors = <<"missing-input-secret">>
    /\ lastResolve.ret.named = lastResolve.siteKey

\* C3 amended: the same, for a supplied identifier that is not the empty
\* string; no validator is returned, so no secret is substituted.
C3_UnknownSiteKeyThrows ==
  (StandardCall /\ Truthy(lastResolve.siteKey) /\ ~MatchesEntry
     /\ ~lastResolve.inMap) =>
    /\ lastResolve.ret.kind = "throw"
    /\ lastResolve.ret.errors = <<"missing-input-secret">>
    /\ lastResolve.ret.named = lastResolve.siteKey
    /\ lastResolve.ret.currentSecretKey = Undefined

\* a throwing call made while sites are configured and the mapping holds
\* secrets for other identifiers
C3_Witness ==
  /\ StandardCall /\ lastResolve.siteKey = "C"
  /\ lastResolve.ret.kind = "throw"
  /\ config.sitesDefined /\ Len(config.sites) > 0
  /\ DOMAIN GOOGLE_RECAPTCHA_SECRET_MAP # {}

\* C8: with enterprise mode on, every resolve call returns an enterprise
\* validator, never throws, and looks up neither the per-site list nor the
\* global mapping.
C8_EnterpriseAlways ==
  (lastResolve.called /\ config.enterprise) =>
    /\ lastResolve.ret.kind = "enterprise"
    /\ lastResolve.ret.lookups = {}
    /\ lastResolve.ret.errors = <<>>

\* an enterprise call with an identifier present in neither source
C8_Witness ==
  /\ lastResolve.called /\ config.enterprise
  /\ lastResolve.siteKey = "C"
  /\ lastResolve.ret.kind = "enterprise"

\* C9: with enterprise mode off and no identifier supplied, resolve returns
\* a standard validator: bound to the first entry's secret when the
\* per-site list is configured and non-empty, and with no secret bound
\* otherwise.
C9_NoSiteKeyNeverFails ==
  (StandardCall /\ lastResolve.siteKey = Undefined) =>
    /\ lastResolve.ret.kind = "standard"
    /\ (config.sitesDefined /\ Len(config.sites) > 0)
         => lastResolve.ret.currentSecretKey = config.sites[1].secretKey
    /\ ~(config.sitesDefined /\ Len(config.sites) > 0)
         => lastResolve.ret.currentSecretKey = Undefined

\* a call without identifier on a list whose entries hold different secrets
C9_Witness ==
  /\ StandardCall /\ lastResolve.siteKey = Undefined
  /\ config.sitesDefined /\ Len(config.sites) > 1
  /\ config.sites[1].secretKey # config.sites[Len(config.sites)].secretKey
  /\ lastResolve.ret.currentSecretKey = config.sites[1].secretKey

\* --------------------------------------------------- guard properties
\* the configured skipIf evaluated truthy for request r
SkipTruthy(r) ==
  \/ config.skipIf = "true" /\ req[r].pc # "idle"
  \/ config.skipIf = "function" /\ req[r].skipResult

\* C4: when skipIf (a boolean, or the awaited result of a function)
\* evaluates truthy, canActivate returns true and has called no extractor,
\* neither resolve nor validate, and has set no recaptchaValidationResult.
C4_SkipMakesNoCall ==
  \A r \in Requests :
    SkipTruthy(r) =>
      /\ req[r].pc = "done" /\ req[r].outcome = "true"
      /\ req[r].extractorCalls = 0
      /\ req[r].resolveCalls = 0
      /\ req[r].validateCalls = 0
      /\ ~req[r].hasResult

\* a request skipped by the awaited result of a skipIf function
C4_Witness ==
  /\ config.skipIf = "function" /\ req[1].skipResult
  /\ req[1].pc = "done" /\ req[1].outcome = "true"
  /\ req[1].header = "C"

\* C5: a non-skipped request whose resolution succeeded has called validate
\* exactly once; when it completes it returns true exactly when
\* result.success is true and otherwise throws exactly the result's errors.
C5_ResultDecides ==
  \A r \in Requests :
    req[r].validator # 0 =>
      /\ req[r].validateCalls = 1
      /\ req[r].resolveCalls = 1
      /\ req[r].pc \in {"awaitValidate", "done"}
      /\ req[r].pc = "done" =>
           /\ req[r].hasResult
           /\ (req[r].outcome = "true") <=> req[r].recaptchaValidationResult.success
           /\ ~req[r].recaptchaValidationResult.success =>
                /\ req[r].outcome = "throw"
                /\ req[r].thrown = req[r].recaptchaValidationResult.errors

\* a verified request refused on a result with success false and no errors
C5_Witness ==
  /\ req[1].pc = "done" /\ req[1].validator # 0
  /\ ~req[1].recaptchaValidationResult.success
  /\ req[1].recaptchaValidationResult.errors = <<>>
  /\ req[1].outcome = "throw"

\* C6 as stated: the score passed to validate is the decorator's score
\* whenever the decorator options supply one (0.0 to 1.0), and the
\* module-level score only when they supply none.
C6_DecoratorScoreWins ==
  \A r \in Requests :
    req[r].validateCalls = 1 =>
      req[r].score = IF req[r].optScore # NoScore THEN req[r].optScore ELSE config.score

\* the entry that the decorator's site name selects, 0 when there is none
NamedEntry(r) ==
  IF req[r].optSite # Undefined /\ config.sitesDefined
       /\ \E i \in 1..Len(config.sites) : config.sites[i].name = req[r].optSite
    THEN CHOOSE i \in 1..Len(config.sites) :
           /\ config.sites[i].name = req[r].optSite
           /\ \A j \in 1..(i - 1) : config.sites[j].name # req[r].optSite
    ELSE 0

\* C7: the identifier passed to resolve is the siteKey of the first entry
\* whose name equals the decorator's site option when there is such an
\* entry, whatever the header; in every other case it is the value of the
\* x-recaptcha-sitekey header, which may be absent.
C7_SiteKeyPassed ==
  \A r \in Requests :
    req[r].resolveCalls = 1 =>
      req[r].siteKey = IF NamedEntry(r) # 0 THEN config.sites[NamedEntry(r)].siteKey
                       ELSE req[r].header

\* a request whose header names one site and whose decorator names another,
\* the name being carried by two entries with different identifiers
C7_Witness ==
  /\ req[1].resolveCalls = 1
  /\ NamedEntry(1) = 1 /\ Len(config.sites) = 2
  /\ config.sites[2].name = req[1].optSite
  /\ config.sites[2].siteKey = req[1].header
  /\ config.sites[1].siteKey # req[1].header

\* ---------------------------------------------- concurrency properties
\* the secret that the sources held for request r's own identifier when r
\* made its resolve call
OwnSecret(r) ==
  IF config.enterprise THEN Undefined
  ELSE IF Truthy(req[r].siteKey)
    THEN IF \E i \in 1..Len(config.sites) : config.sites[i].siteKey = req[r].siteKey
           THEN LET i == CHOOSE i \in 1..Len(config.sites) :
                           /\ config.sites[i].siteKey = req[r].siteKey
                           /\ \A j \in 1..(i - 1) : config.sites[j].siteKey # req[r].siteKey
                IN config.sites[i].secretKey
           ELSE req[r].seen.mapValue
    ELSE IF Len(config.sites) > 0 THEN config.sites[1].secretKey ELSE Undefined

\* C10: the validator a request holds from its resolve call to the end of
\* its verification is an instance no other request holds, and the secret
\* bound to it stays the one resolved for the request's own identifier at
\* its own resolve step, under every interleaving of requests and of writes
\* to the global mapping.
C10_SecretIsolation ==
  \A r \in Requests :
    req[r].validator # 0 =>
      /\ heap[req[r].validator].live
      /\ heap[req[r].validator].currentSecretKey = OwnSecret(r)
      /\ \A o \in Requests \ {r} : req[o].validator # req[r].validator

\* two requests suspended at their verification calls with different
\* identifiers and secrets, the mapping rotated since the first one resolved
C10_Witness ==
  /\ req[1].pc = "awaitValidate" /\ req[2].pc = "awaitValidate"
  /\ req[1].siteKey = "B" /\ req[2].siteKey = "A"
  /\ heap[req[1].validator].currentSecretKey = "m1"
  /\ heap[req[2].validator].currentSecretKey = "sA"
  /\ MapGet(GOOGLE_RECAPTCHA_SECRET_MAP, "B") = "m2"

====
